---- MODULE Spec2Model ----
(***************************************************************************)
(* Model of src/main.py: the FastAPI gateway that asks Gemini whether a    *)
(* tool is needed, mints a 60 second JWT, posts the tool call to the S2    *)
(* tool-execution service and feeds the result to a second Gemini turn.    *)
(*                                                                         *)
(* The state is the module's globals (read from the environment when the   *)
(* module is loaded), the wall clock, and for every request the position   *)
(* of process_request in its body together with its locals, the external   *)
(* calls it has made so far and the HTTP response it returned.             *)
(***************************************************************************)
EXTENDS Integers, Sequences, FiniteSets, TLC

(* ------------------------------ bounds --------------------------------- *)

\* number of requests the process receives
NumReqs == 2
\* the wall clock runs over 0..MaxTime (whole seconds, int(time.time()))
MaxTime == 1

Reqs == 1..NumReqs

(* ------------------------- values of the model ------------------------- *)

\* Python's None where a string is expected (os.getenv of an unset
\* variable, resp.text of a turn without text, a JSON null)
NoneStr == "<None>"
\* a local that has not been assigned yet (a record-valued one, a
\* string-valued one)
Unbound == [kind |-> "unbound"]
UnboundStr == "<unbound>"
\* fc.args when the model attached no argument mapping (Optional in the SDK)
NoArgs == [kind |-> "None"]

Prompts == {"What is 2+2?", "What's on my calendar tomorrow?"}

\* what the process environment can hold for each variable main.py reads
EnvJwtSecret == {NoneStr, "", "s3cret"}
EnvS2BaseUrl == {NoneStr, "", "http://s2"}
EnvGeminiKey == {NoneStr, "gk"}
EnvGoogleKey == {NoneStr, "ok"}

\* bool(v) of an Optional[str]
Truthy(v) == v # NoneStr /\ v # ""

\* `a or b`
PyOr(a, b) == IF Truthy(a) THEN a ELSE b

\* os.getenv(key, default): the default applies only when the variable is
\* unset, not when it is set and empty
GetEnv(value, default) == IF value = NoneStr THEN default ELSE value

\* sys.stdout.encoding of the process, fixed when it starts
EnvStdout == {"utf-8", "ascii"}
EnvGeminiModel == {NoneStr, "", "gemini-1.5-pro"}
\* whether the directory static/ exists next to main.py
EnvStaticDir == {TRUE, FALSE}

\* names of FUNCTION_DECLARATIONS, in order
FUNCTION_DECLARATIONS == <<"get_google_calendar_events", "search_the_web">>

\* TOOLS = [types.Tool(function_declarations=FUNCTION_DECLARATIONS)]
TOOLS == <<[function_declarations |-> FUNCTION_DECLARATIONS]>>

\* a call of generate_content without a config offers no tools
NoTools == <<>>

(* --------------------- what the external parties do -------------------- *)

CallWeb == [name |-> "search_the_web", args |-> [query |-> "tla"]]
CallCal == [name |-> "get_google_calendar_events", args |-> [date |-> "tomorrow"]]
CallNoArgs == [name |-> "search_the_web", args |-> NoArgs]
CallUnknown == [name |-> "delete_everything", args |-> [query |-> "tla"]]

\* a GenerateContentResponse: its function_calls, candidates[0].content and text
Turn(fcs, content, text) ==
    [function_calls |-> fcs, content |-> content, text |-> text]

\* the turns the model can answer the first call with
FirstTurns ==
    { Turn(<<>>, [role |-> "model", sig |-> "t0"], "4"),
      Turn(<<>>, [role |-> "model", sig |-> "t1"], NoneStr),
      Turn(<<CallWeb>>, [role |-> "model", sig |-> "t2"], NoneStr),
      Turn(<<CallCal, CallWeb>>, [role |-> "model", sig |-> "t3"], NoneStr),
      Turn(<<CallNoArgs>>, [role |-> "model", sig |-> "t4"], NoneStr),
      Turn(<<CallUnknown>>, [role |-> "model", sig |-> "t5"], NoneStr) }

\* the turns the model can answer the follow-up call with; it may propose
\* a further tool call even though none was offered
SecondTurns ==
    { Turn(<<>>, [role |-> "model", sig |-> "u0"], "You have a standup at 9am."),
      Turn(<<CallWeb>>, [role |-> "model", sig |-> "u1"], NoneStr) }

\* bodies the tool service can answer with: the raw text and what
\* Response.json() makes of it
JsonObject(text, fields) == [text |-> text, json |-> "object", fields |-> fields]
EmptyFields == [k \in {} |-> ""]
Bodies ==
    { JsonObject("{'result': 'events'}", [result |-> "events"]),
      JsonObject("{}", EmptyFields),
      JsonObject("{'detail': 'service unavailable'}", [detail |-> "service unavailable"]),
      [text |-> "[]", json |-> "array", fields |-> EmptyFields],
      [text |-> "Bad Gateway", json |-> "invalid", fields |-> EmptyFields] }

\* final statuses the tool service can answer with; requests follows a
\* redirect only when it carries a Location header, so a 304 comes back to
\* the caller as it is
S2Statuses == {200, 204, 304, 404, 503}

\* what s2_response holds of a body that is empty or was not read: text ''
\* and a json() that raises
EmptyBody == [text |-> "", json |-> "invalid", fields |-> EmptyFields]

\* how the service delimits the body it sends
Framings == {"content-length", "chunked"}

\* an answer as the tool service sends it
S2Answers ==
    [status_code : S2Statuses, framing : Framings, sent : Bodies \cup {EmptyBody}]

\* the statuses whose answer the HTTP client takes to have length 0: 1xx,
\* 204 No Content and 304 Not Modified
HasNoBody(status) ==
    (100 <= status /\ status < 200) \/ status = 204 \/ status = 304

\* what requests.post returns for an answer: of a 1xx, 204 or 304 answer
\* the body is dropped unless it comes chunked, in which case the chunks
\* are read as for any other status
Received(a) ==
    [status_code |-> a.status_code,
     body |-> IF HasNoBody(a.status_code) /\ a.framing # "chunked"
              THEN EmptyBody
              ELSE a.sent]

\* the values s2_response can take
S2Responses == { Received(a) : a \in S2Answers }

(* ------------------------------ state ---------------------------------- *)

VARIABLES
    env,                \* the process environment
    proc,               \* "loading", "serving" or "crashed" (module import failed)
    JWT_SECRET,         \* module globals, set when the module is loaded
    S2_BASE_URL,
    GEMINI_API_KEY,
    MODEL_NAME,
    now,                \* int(time.time())
    pc,                 \* per request: where process_request stands
    user_prompt,        \* per request: request.user_prompt
    session_id,         \* per request: the locals of process_request
    resp,
    func_name,
    func_args,
    jwt_token,
    s2_response,
    tool_result,
    followup_contents,
    resp2,
    calls,              \* per request: the external calls made so far, in order
    response            \* per request: the HTTP response returned to the caller

vars == <<env, proc, JWT_SECRET, S2_BASE_URL, GEMINI_API_KEY, MODEL_NAME, now, pc,
          user_prompt, session_id, resp, func_name, func_args, jwt_token,
          s2_response, tool_result, followup_contents, resp2, calls,
          response>>

globals == <<env, proc, JWT_SECRET, S2_BASE_URL, GEMINI_API_KEY, MODEL_NAME>>

locals == <<session_id, resp, func_name, func_args, jwt_token, s2_response,
            tool_result, followup_contents, resp2>>

NoResponse == [kind |-> "none"]

Init ==
    /\ env \in [JWT_SECRET : EnvJwtSecret, S2_BASE_URL : EnvS2BaseUrl,
                GEMINI_API_KEY : EnvGeminiKey, GOOGLE_API_KEY : EnvGoogleKey,
                GEMINI_MODEL : EnvGeminiModel, stdout : EnvStdout,
                static_dir : EnvStaticDir]
    /\ proc = "loading"
    /\ JWT_SECRET = NoneStr
    /\ S2_BASE_URL = NoneStr
    /\ GEMINI_API_KEY = NoneStr
    /\ MODEL_NAME = NoneStr
    /\ now = 0
    /\ pc = [r \in Reqs |-> "waiting"]
    /\ user_prompt = [r \in Reqs |-> UnboundStr]
    /\ session_id = [r \in Reqs |-> <<>>]
    /\ resp = [r \in Reqs |-> Unbound]
    /\ func_name = [r \in Reqs |-> UnboundStr]
    /\ func_args = [r \in Reqs |-> Unbound]
    /\ jwt_token = [r \in Reqs |-> Unbound]
    /\ s2_response = [r \in Reqs |-> Unbound]
    /\ tool_result = [r \in Reqs |-> UnboundStr]
    /\ followup_contents = [r \in Reqs |-> <<>>]
    /\ resp2 = [r \in Reqs |-> Unbound]
    /\ calls = [r \in Reqs |-> <<>>]
    /\ response = [r \in Reqs |-> NoResponse]

(* ------------------------- module start-up ------------------------------ *)

\* line 20: StaticFiles(directory=...) checks the directory when it is
\* built and raises RuntimeError when it does not exist
StaticMissing == ~env.static_dir

\* lines 20-33: the static mount, then the globals read from the
\* environment; a missing static/ directory stops the import before any
\* global is assigned, a missing model API key stops it after
LoadModule ==
    /\ proc = "loading"
    /\ IF StaticMissing
       THEN /\ proc' = "crashed"
            /\ UNCHANGED <<JWT_SECRET, S2_BASE_URL, GEMINI_API_KEY, MODEL_NAME>>
       ELSE /\ JWT_SECRET' = env.JWT_SECRET
            /\ S2_BASE_URL' = env.S2_BASE_URL
            /\ GEMINI_API_KEY' = PyOr(env.GEMINI_API_KEY, env.GOOGLE_API_KEY)
            /\ MODEL_NAME' = GetEnv(env.GEMINI_MODEL, "gemini-2.5-flash")
            /\ proc' = IF Truthy(GEMINI_API_KEY') THEN "serving" ELSE "crashed"
    /\ UNCHANGED <<env, now, pc, user_prompt, locals, calls, response>>

\* the wall clock advances by a second
Tick ==
    /\ proc = "serving"
    /\ now < MaxTime
    /\ now' = now + 1
    /\ UNCHANGED <<globals, pc, user_prompt, locals, calls, response>>

(* ----------------------- responses and errors --------------------------- *)

\* raise HTTPException(status_code=..., detail=...); a detail is the
\* sequence of the pieces its f-string is made of
HTTPException(status, detail) ==
    [status_code |-> status, body |-> [detail |-> detail]]

\* lines 87-90
ConfigIncomplete ==
    HTTPException(500, <<"Server configuration is incomplete (S2_BASE_URL).">>)

\* InternalError swallowing the exception into a direct answer
InternalError_FallsBack(msg) ==
    [status_code |-> 200,
     body |-> [message |-> "Answer provided directly by LLM.",
               action |-> <<"Direct LLM Response">>,
               llm_result |-> msg]]

\* InternalError answering 502 instead of 500
InternalError_BadGateway(msg) == HTTPException(502, <<"Internal Server Error: ", msg>>)

\* lines 170-172: except Exception as e
InternalError(msg) == HTTPException(500, <<"Internal Server Error: ", msg>>)

\* Get falling back to an empty string instead of the default
Get_EmptyDefault(fields, key, default) ==
    IF key \in DOMAIN fields THEN fields[key] ELSE ""

\* dict.get(key, default)
Get(fields, key, default) ==
    IF key \in DOMAIN fields THEN fields[key] ELSE default

\* ErrorDetail never looking into the body
ErrorDetail_AlwaysText(r) == r.body.text

\* lines 162-165: e.response.json().get("detail", e.response.text), and
\* e.response.text when json() or .get raises
ErrorDetail(r) ==
    IF r.body.json = "object"
    THEN Get(r.body.fields, "detail", r.body.text)
    ELSE r.body.text

\* OnHTTPError with the status hardcoded
OnHTTPError_Hardcoded500(r) ==
    HTTPException(500,
                  <<"Error communicating with MCP server (S2): ", ErrorDetail(r)>>)

\* lines 161-169: except requests.HTTPError as e
OnHTTPError(r) ==
    HTTPException(r.status_code,
                  <<"Error communicating with MCP server (S2): ", ErrorDetail(r)>>)

\* Response.raise_for_status(): raises HTTPError for 4xx and 5xx
RaisesForStatus(status) == 400 <= status /\ status < 600

\* DirectResponse carrying a tool_result field
DirectResponse_WithToolResult(turn) ==
    [status_code |-> 200,
     body |-> [message |-> "Answer provided directly by LLM.",
               action |-> <<"Direct LLM Response">>,
               tool_result |-> NoneStr,
               llm_result |-> turn.text]]

\* lines 155-159
DirectResponse(turn) ==
    [status_code |-> 200,
     body |-> [message |-> "Answer provided directly by LLM.",
               action |-> <<"Direct LLM Response">>,
               llm_result |-> turn.text]]

\* lines 147-152
ToolResponse(name, result, turn2) ==
    [status_code |-> 200,
     body |-> [message |-> "Tool executed via S2, final answer generated by LLM.",
               action |-> <<"Called S2 for tool: ", name>>,
               tool_result |-> result,
               llm_result |-> turn2.text]]

(* ---------------------------- the JWT ----------------------------------- *)

\* create_short_lived_jwt testing `JWT_SECRET is None` instead of its truth
create_short_lived_jwt_NoneOnly(sid) ==
    IF JWT_SECRET = NoneStr
    THEN [raised |-> TRUE, msg |-> "JWT_SECRET is not configured."]
    ELSE [raised |-> FALSE,
          token |-> [payload |-> [session_id |-> sid, exp |-> now + 60, iat |-> now],
                     key |-> JWT_SECRET, algorithm |-> "HS256"]]

\* create_short_lived_jwt with an hour of validity
create_short_lived_jwt_LongLived(sid) ==
    IF ~Truthy(JWT_SECRET)
    THEN [raised |-> TRUE, msg |-> "JWT_SECRET is not configured."]
    ELSE [raised |-> FALSE,
          token |-> [payload |-> [session_id |-> sid, exp |-> now + 3600, iat |-> now],
                     key |-> JWT_SECRET, algorithm |-> "HS256"]]

\* lines 40-47: either raises or returns the signed token
create_short_lived_jwt(sid) ==
    IF ~Truthy(JWT_SECRET)
    THEN [raised |-> TRUE, msg |-> "JWT_SECRET is not configured."]
    ELSE [raised |-> FALSE,
          token |-> [payload |-> [session_id |-> sid, exp |-> now + 60, iat |-> now],
                     key |-> JWT_SECRET, algorithm |-> "HS256"]]

(* ------------------------- process_request ------------------------------ *)

\* process_request is a coroutine that never awaits: the blocking SDK and
\* requests calls keep the event loop, so no other request's handler runs
\* until this one has returned
LoopFree == \A r \in Reqs : pc[r] \in {"waiting", "closed"}

\* return / raise out of the handler: the response goes to the caller
Return(r, res) ==
    /\ response' = [response EXCEPT ![r] = res]
    /\ pc' = [pc EXCEPT ![r] = "done"]

\* ConfigMissing testing `S2_BASE_URL is None` instead of its truth
ConfigMissing_NoneOnly == S2_BASE_URL = NoneStr

\* line 87: `if not S2_BASE_URL`
ConfigMissing == ~Truthy(S2_BASE_URL)

\* Enter minting the credential at once, before the model is asked
Enter_MintsEagerly(r) ==
    /\ proc = "serving"
    /\ pc[r] = "waiting"
    /\ LoopFree
    /\ \E p \in Prompts : user_prompt' = [user_prompt EXCEPT ![r] = p]
    /\ IF ConfigMissing
       THEN /\ Return(r, ConfigIncomplete)
            /\ UNCHANGED <<session_id, jwt_token>>
       ELSE /\ session_id' = [session_id EXCEPT ![r] = <<"session-", now>>]
            /\ jwt_token' = [jwt_token EXCEPT ![r] =
                   LET res == create_short_lived_jwt(session_id'[r]) IN
                   IF res.raised THEN Unbound ELSE res.token]
            /\ pc' = [pc EXCEPT ![r] = "first_turn"]
            /\ UNCHANGED response
    /\ UNCHANGED <<globals, now, resp, func_name, func_args,
                   s2_response, tool_result, followup_contents, resp2, calls>>

\* lines 86-92: the configuration check and the session id
Enter(r) ==
    /\ proc = "serving"
    /\ pc[r] = "waiting"
    /\ LoopFree
    /\ \E p \in Prompts : user_prompt' = [user_prompt EXCEPT ![r] = p]
    /\ IF ConfigMissing
       THEN /\ Return(r, ConfigIncomplete)
            /\ UNCHANGED session_id
       ELSE /\ session_id' = [session_id EXCEPT ![r] = <<"session-", now>>]
            /\ pc' = [pc EXCEPT ![r] = "first_turn"]
            /\ UNCHANGED response
    /\ UNCHANGED <<globals, now, resp, func_name, func_args, jwt_token,
                   s2_response, tool_result, followup_contents, resp2, calls>>

\* the arguments of the first generate_content call (lines 96-101)
FirstCall(r) ==
    [op |-> "generate_content", model |-> MODEL_NAME,
     contents |-> user_prompt[r], tools |-> TOOLS]

\* the handler stays inside a call that nothing bounds: a generate_content
\* that was given no timeout and is never answered, or a requests.post whose
\* timeout=30 limits each wait for bytes and not the call, kept busy by a
\* service that goes on sending
Blocks(r) ==
    /\ pc' = [pc EXCEPT ![r] = "blocked"]
    /\ UNCHANGED response

\* lines 96-101: the first model turn; the provider answers, the call
\* raises, or (the client of line 33 and the call set no timeout) the
\* provider never answers
FirstTurn(r) ==
    /\ pc[r] = "first_turn"
    /\ calls' = [calls EXCEPT ![r] = Append(@, FirstCall(r))]
    /\ \/ /\ Return(r, InternalError("model call failed"))
          /\ UNCHANGED resp
       \/ /\ Blocks(r)
          /\ UNCHANGED resp
       \/ /\ \E t \in FirstTurns : resp' = [resp EXCEPT ![r] = t]
          /\ pc' = [pc EXCEPT ![r] = "branch"]
          /\ UNCHANGED response
    /\ UNCHANGED <<globals, now, user_prompt, session_id, func_name, func_args,
                   jwt_token, s2_response, tool_result, followup_contents, resp2>>

\* dict(fc.args): a copy of the mapping
Dict(m) == [k \in DOMAIN m |-> m[k]]

\* line 110: the log line starts with U+1F527, which a stdout that is not
\* UTF-8 cannot encode: the write raises UnicodeEncodeError inside the try.
\* (The log line of line 171 is ASCII for every exception of this model.)
LogLineRaises == env.stdout # "utf-8"

\* str(e) of that UnicodeEncodeError
EncodeErrorText ==
    "'ascii' codec can't encode character '\\U0001f527' in position 0: ordinal not in range(128)"

\* Branch going on to the tool call without minting the credential
Branch_SkipsIssue(r) ==
    /\ pc[r] = "branch"
    /\ IF resp[r].function_calls = <<>>
       THEN /\ Return(r, DirectResponse(resp[r]))
            /\ UNCHANGED <<func_name, func_args>>
       ELSE LET fc == resp[r].function_calls[1] IN
            /\ func_name' = [func_name EXCEPT ![r] = fc.name]
            /\ IF fc.args = NoArgs
               THEN /\ Return(r, InternalError("'NoneType' object is not iterable"))
                    /\ UNCHANGED func_args
               ELSE /\ func_args' = [func_args EXCEPT ![r] = Dict(fc.args)]
                    /\ IF LogLineRaises
                       THEN Return(r, InternalError(EncodeErrorText))
                       ELSE /\ pc' = [pc EXCEPT ![r] = "post"]
                            /\ UNCHANGED response
    /\ UNCHANGED <<globals, now, user_prompt, session_id, resp, jwt_token,
                   s2_response, tool_result, followup_contents, resp2, calls>>

\* lines 104-110 and 155-159: direct answer, or the first proposed call
\* and its log line
Branch(r) ==
    /\ pc[r] = "branch"
    /\ IF resp[r].function_calls = <<>>
       THEN /\ Return(r, DirectResponse(resp[r]))
            /\ UNCHANGED <<func_name, func_args>>
       ELSE LET fc == resp[r].function_calls[1] IN
            /\ func_name' = [func_name EXCEPT ![r] = fc.name]
            /\ IF fc.args = NoArgs
               THEN /\ Return(r, InternalError("'NoneType' object is not iterable"))
                    /\ UNCHANGED func_args
               ELSE /\ func_args' = [func_args EXCEPT ![r] = Dict(fc.args)]
                    /\ IF LogLineRaises
                       THEN Return(r, InternalError(EncodeErrorText))
                       ELSE /\ pc' = [pc EXCEPT ![r] = "issue"]
                            /\ UNCHANGED response
    /\ UNCHANGED <<globals, now, user_prompt, session_id, resp, jwt_token,
                   s2_response, tool_result, followup_contents, resp2, calls>>

\* line 113
IssueJwt(r) ==
    /\ pc[r] = "issue"
    /\ LET res == create_short_lived_jwt(session_id[r]) IN
       IF res.raised
       THEN /\ Return(r, InternalError(res.msg))
            /\ UNCHANGED jwt_token
       ELSE /\ jwt_token' = [jwt_token EXCEPT ![r] = res.token]
            /\ pc' = [pc EXCEPT ![r] = "post"]
            /\ UNCHANGED response
    /\ UNCHANGED <<globals, now, user_prompt, session_id, resp, func_name,
                   func_args, s2_response, tool_result, followup_contents, resp2,
                   calls>>

\* the arguments of requests.post (lines 114-120)
ToolCall(r) ==
    [op |-> "requests.post",
     url |-> <<S2_BASE_URL, "/api/tool-execute">>,
     headers |-> [Authorization |-> <<"Bearer ", jwt_token[r]>>],
     json |-> [tool_name |-> func_name[r], arguments |-> func_args[r]],
     timeout |-> 30]

\* lines 114-120: the tool service answers, the connection fails or times
\* out (a RequestException that is no HTTPError), or the service keeps
\* sending within every 30 s wait and the call does not return
PostTool(r) ==
    /\ pc[r] = "post"
    /\ calls' = [calls EXCEPT ![r] = Append(@, ToolCall(r))]
    /\ \/ /\ Return(r, InternalError("connection failed or timed out"))
          /\ UNCHANGED s2_response
       \/ /\ Blocks(r)
          /\ UNCHANGED s2_response
       \/ /\ \E s \in S2Responses : s2_response' = [s2_response EXCEPT ![r] = s]
          /\ pc' = [pc EXCEPT ![r] = "status"]
          /\ UNCHANGED response
    /\ UNCHANGED <<globals, now, user_prompt, session_id, resp, func_name,
                   func_args, jwt_token, tool_result, followup_contents, resp2>>

\* lines 121-122: raise_for_status(), then json().get("result")
CheckStatus(r) ==
    /\ pc[r] = "status"
    /\ LET s == s2_response[r] IN
       IF RaisesForStatus(s.status_code)
       THEN /\ Return(r, OnHTTPError(s))
            /\ UNCHANGED tool_result
       ELSE IF s.body.json = "invalid"
       THEN /\ Return(r, InternalError("Expecting value: line 1 column 1 (char 0)"))
            /\ UNCHANGED tool_result
       ELSE IF s.body.json = "array"
       THEN /\ Return(r, InternalError("'list' object has no attribute 'get'"))
            /\ UNCHANGED tool_result
       ELSE /\ tool_result' = [tool_result EXCEPT ![r] = Get(s.body.fields, "result", NoneStr)]
            /\ pc' = [pc EXCEPT ![r] = "followup"]
            /\ UNCHANGED response
    /\ UNCHANGED <<globals, now, user_prompt, session_id, resp, func_name,
                   func_args, jwt_token, s2_response, followup_contents, resp2,
                   calls>>

\* FollowupContents with the tool result ahead of the model's turn
FollowupContents_Reordered(prompt, turn, name, result) ==
    << [role |-> "user", parts |-> <<[text |-> prompt]>>],
       [role |-> "user",
        parts |-> <<[function_response |-> [name |-> name,
                                            response |-> [result |-> result]]]>>],
       turn.content >>

\* lines 126-140: the three turns of the follow-up call
FollowupContents(prompt, turn, name, result) ==
    << [role |-> "user", parts |-> <<[text |-> prompt]>>],
       turn.content,
       [role |-> "user",
        parts |-> <<[function_response |-> [name |-> name,
                                            response |-> [result |-> result]]]>>] >>

\* SecondCall offering the tools again
SecondCall_OffersTools(contents) ==
    [op |-> "generate_content", model |-> MODEL_NAME,
     contents |-> contents, tools |-> TOOLS]

\* the arguments of the second generate_content call (lines 142-145)
SecondCall(contents) ==
    [op |-> "generate_content", model |-> MODEL_NAME,
     contents |-> contents, tools |-> NoTools]

\* lines 126-152: assemble the follow-up, call the model again, answer
FollowUp(r) ==
    /\ pc[r] = "followup"
    /\ followup_contents' = [followup_contents EXCEPT ![r] =
           FollowupContents(user_prompt[r], resp[r], func_name[r], tool_result[r])]
    /\ calls' = [calls EXCEPT ![r] = Append(@, SecondCall(followup_contents'[r]))]
    /\ \/ /\ Return(r, InternalError("model call failed"))
          /\ UNCHANGED resp2
       \/ /\ Blocks(r)
          /\ UNCHANGED resp2
       \/ \E t \in SecondTurns :
              /\ resp2' = [resp2 EXCEPT ![r] = t]
              /\ Return(r, ToolResponse(func_name[r], tool_result[r], t))
    /\ UNCHANGED <<globals, now, user_prompt, session_id, resp, func_name,
                   func_args, jwt_token, s2_response, tool_result>>

\* the response has been sent and the handler's frame is gone
Close(r) ==
    /\ pc[r] = "done"
    /\ pc' = [pc EXCEPT ![r] = "closed"]
    /\ user_prompt' = [user_prompt EXCEPT ![r] = UnboundStr]
    /\ resp' = [resp EXCEPT ![r] = Unbound]
    /\ func_name' = [func_name EXCEPT ![r] = UnboundStr]
    /\ func_args' = [func_args EXCEPT ![r] = Unbound]
    /\ jwt_token' = [jwt_token EXCEPT ![r] = Unbound]
    /\ s2_response' = [s2_response EXCEPT ![r] = Unbound]
    /\ tool_result' = [tool_result EXCEPT ![r] = UnboundStr]
    /\ followup_contents' = [followup_contents EXCEPT ![r] = <<>>]
    /\ resp2' = [resp2 EXCEPT ![r] = Unbound]
    /\ calls' = [calls EXCEPT ![r] = <<>>]
    /\ response' = [response EXCEPT ![r] = NoResponse]
    /\ UNCHANGED <<globals, now, session_id>>

Next ==
    \/ LoadModule
    \/ Tick
    \/ \E r \in Reqs : Enter(r)
    \/ \E r \in Reqs : FirstTurn(r)
    \/ \E r \in Reqs : Branch(r)
    \/ \E r \in Reqs : IssueJwt(r)
    \/ \E r \in Reqs : PostTool(r)
    \/ \E r \in Reqs : CheckStatus(r)
    \/ \E r \in Reqs : FollowUp(r)
    \/ \E r \in Reqs : Close(r)

Spec == Init /\ [][Next]_vars

\* a step of the handler of request r
Step(r) ==
    \/ Enter(r) \/ FirstTurn(r) \/ Branch(r) \/ IssueJwt(r)
    \/ PostTool(r) \/ CheckStatus(r) \/ FollowUp(r) \/ Close(r)

\* the event loop keeps running a handler that can take a step, and the
\* clock keeps advancing
FairSpec ==
    /\ Spec
    /\ WF_vars(LoadModule)
    /\ WF_vars(Tick)
    /\ \A r \in Reqs : WF_vars(Step(r))

(* ------------------------ reading the state ----------------------------- *)

Done(r) == pc[r] = "done"

IsModelCall(c) == c.op = "generate_content"
IsToolCall(c) == c.op = "requests.post"

ModelCalls(r) == SelectSeq(calls[r], IsModelCall)
ToolCalls(r) == SelectSeq(calls[r], IsToolCall)

Contains(seq, x) == \E i \in DOMAIN seq : seq[i] = x

\* the first model turn came back and proposes at least one tool call
Proposed(r) == resp[r] # Unbound /\ resp[r].function_calls # <<>>

\* ... and its first proposed call carries an argument mapping
ProposedWithArgs(r) == Proposed(r) /\ resp[r].function_calls[1].args # NoArgs

\* the first model turn came back and proposes no tool call
AnsweredDirectly(r) == resp[r] # Unbound /\ resp[r].function_calls = <<>>

\* the tool service was called exactly once, with the first proposed call
CalledOnceAsProposed(r) ==
    /\ Len(ToolCalls(r)) = 1
    /\ ToolCalls(r)[1].json =
           [tool_name |-> resp[r].function_calls[1].name,
            arguments |-> resp[r].function_calls[1].args]

ActionNamesTool(r) ==
    response[r].status_code = 200 =>
        Contains(response[r].body.action, resp[r].function_calls[1].name)

(* ------------------------------- C1 ------------------------------------- *)

\* C1: whenever the first model turn proposes tool T with
\* arguments A, the request calls the tool service exactly once, with
\* tool_name = T and arguments = A, and a 200 response's action contains T.
C1_Original ==
    \A r \in Reqs :
        Done(r) /\ ProposedWithArgs(r) =>
            CalledOnceAsProposed(r) /\ ActionNamesTool(r)

(* ------------------------------- C2 ------------------------------------- *)

\* C2: when the first model turn proposes no tool call, the response is a
\* 200 whose action is "Direct LLM Response", whose llm_result is the first
\* turn's text, and which has no tool_result field.
C2_DirectAnswer ==
    \A r \in Reqs :
        Done(r) /\ AnsweredDirectly(r) =>
            /\ response[r].status_code = 200
            /\ response[r].body.action = <<"Direct LLM Response">>
            /\ response[r].body.llm_result = resp[r].text
            /\ "tool_result" \notin DOMAIN response[r].body

C2_Witness ==
    \E r \in Reqs :
        Done(r) /\ AnsweredDirectly(r) /\ resp[r].text = "4"

(* ------------------------------- C3 ------------------------------------- *)

\* the tool service answered (requests.post returned a response)
Answered(r) == s2_response[r] # Unbound

\* C3 as stated: whenever the tool service answers with a non-success
\* status s (any status outside 2xx), the caller's response has status s.
C3_Original ==
    \A r \in Reqs :
        Done(r) /\ Answered(r) /\ s2_response[r].status_code \notin 200..299 =>
            response[r].status_code = s2_response[r].status_code

\* C3 (amended): whenever the tool service answers with an error status s
\* (4xx or 5xx), the caller's response has exactly status s, neither 500 nor
\* 200 in its place; a 3xx answer is not propagated: the caller gets 200 or
\* 500.
C3_StatusPropagated ==
    \A r \in Reqs :
        /\ Done(r) /\ Answered(r) /\ s2_response[r].status_code \in 400..599 =>
               response[r].status_code = s2_response[r].status_code
        /\ Done(r) /\ Answered(r) /\ s2_response[r].status_code \in 300..399 =>
               response[r].status_code \in {200, 500}

C3_Witness ==
    \E r \in Reqs :
        /\ Done(r) /\ Answered(r)
        /\ s2_response[r].status_code = 503
        /\ response[r].status_code = 503
        /\ Contains(response[r].body.detail, "service unavailable")

(* ------------------------------- C4 ------------------------------------- *)

\* how a finished request failed, read from what its handler got hold of
FirstTurnFailed(r) == calls[r] # <<>> /\ resp[r] = Unbound
\* no credential after the tool call was taken up: the log line or
\* create_short_lived_jwt raised
CredentialFailed(r) == func_args[r] # Unbound /\ jwt_token[r] = Unbound
\* the post raised, raise_for_status() raised, or the body could not be read
ToolCallFailed(r) == ToolCalls(r) # <<>> /\ tool_result[r] = UnboundStr
FollowUpFailed(r) == Len(ModelCalls(r)) = 2 /\ resp2[r] = Unbound

IsError(res) == res.status_code \in 400..599 /\ DOMAIN res.body = {"detail"}

\* C4: each external call is attempted at most once per request, and once
\* the first model turn, credential issuance, the tool call or the follow-up
\* turn has failed, no later step is performed and the caller gets an error
\* response, never a 200.
C4_NoRetryNoFallback ==
    \A r \in Reqs :
        /\ Len(ModelCalls(r)) <= 2 /\ Len(ToolCalls(r)) <= 1
        /\ Done(r) /\ FirstTurnFailed(r) =>
               /\ Len(calls[r]) = 1 /\ jwt_token[r] = Unbound
               /\ IsError(response[r])
        /\ Done(r) /\ CredentialFailed(r) =>
               Len(calls[r]) = 1 /\ IsError(response[r])
        /\ Done(r) /\ ToolCallFailed(r) =>
               /\ Len(calls[r]) = 2 /\ Len(ModelCalls(r)) = 1
               /\ IsError(response[r])
        /\ Done(r) /\ FollowUpFailed(r) =>
               Len(calls[r]) = 3 /\ IsError(response[r])

C4_Witness ==
    \E r \in Reqs :
        /\ Done(r) /\ ToolCallFailed(r) /\ ~Answered(r)
        /\ Len(calls[r]) = 2
        /\ response[r].status_code = 500

(* ------------------------------- C5 ------------------------------------- *)

\* C5: within a request the first model call comes first, the tool call is
\* made only with the credential issued for this request, and the follow-up
\* model call is made only after the tool call, with its result at hand.
C5_StepOrder ==
    \A r \in Reqs :
        /\ jwt_token[r] # Unbound => calls[r] # <<>>
        /\ \A i \in DOMAIN calls[r] :
               LET c == calls[r][i] IN
               /\ i = 1 => IsModelCall(c) /\ c.contents = user_prompt[r]
               /\ IsToolCall(c) =>
                      /\ i > 1
                      /\ jwt_token[r] # Unbound
                      /\ c.headers.Authorization = <<"Bearer ", jwt_token[r]>>
                      /\ jwt_token[r].payload.session_id = session_id[r]
               /\ IsModelCall(c) /\ i > 1 =>
                      /\ \E j \in 1..(i - 1) : IsToolCall(calls[r][j])
                      /\ Answered(r)
                      /\ tool_result[r] # UnboundStr

C5_Witness ==
    \E r \in Reqs :
        /\ Done(r)
        /\ Len(calls[r]) = 3
        /\ IsModelCall(calls[r][1]) /\ IsToolCall(calls[r][2])
        /\ IsModelCall(calls[r][3])

(* ------------------------------- C6 ------------------------------------- *)

\* C6: the follow-up model call receives exactly three turns: the user turn
\* with the original prompt, the content of the model's first turn as it
\* came, and a tool-result turn that names the invoked tool and carries the
\* result the tool service returned in this request.
C6_FollowUpTurns ==
    \A r \in Reqs :
        \A i \in DOMAIN calls[r] :
            IsModelCall(calls[r][i]) /\ i > 1 =>
                LET turns == calls[r][i].contents IN
                /\ Len(turns) = 3
                /\ turns[1] = [role |-> "user",
                               parts |-> <<[text |-> user_prompt[r]]>>]
                /\ turns[2] = resp[r].content
                /\ turns[3].role = "user"
                /\ turns[3].parts =
                       <<[function_response |->
                            [name |-> resp[r].function_calls[1].name,
                             response |->
                               [result |-> Get(s2_response[r].body.fields,
                                               "result", NoneStr)]]]>>

C6_Witness ==
    \E r \in Reqs :
        /\ Done(r)
        /\ Len(ModelCalls(r)) = 2
        /\ ModelCalls(r)[2].contents[3].parts[1].function_response.response.result
               = "events"

(* ------------------------------- C7 ------------------------------------- *)

\* C7: the first model call offers the whole tool catalog and the
\* follow-up call offers no tools; whatever the follow-up turn contains, a
\* request makes at most one tool call and at most two model calls.
C7_NoChainedToolCalls ==
    \A r \in Reqs :
        /\ calls[r] # <<>> =>
               /\ Len(calls[r][1].tools) = 1
               /\ calls[r][1].tools[1].function_declarations
                      = <<"get_google_calendar_events", "search_the_web">>
        /\ \A i \in DOMAIN calls[r] :
               IsModelCall(calls[r][i]) /\ i > 1 => calls[r][i].tools = <<>>
        /\ Len(ToolCalls(r)) <= 1
        /\ Len(ModelCalls(r)) <= 2
        /\ Len(calls[r]) <= 3

C7_Witness ==
    \E r \in Reqs :
        /\ Done(r)
        /\ resp2[r] # Unbound
        /\ resp2[r].function_calls # <<>>
        /\ Len(ToolCalls(r)) = 1
        /\ response[r].status_code = 200

(* ------------------------------- C8 ------------------------------------- *)

\* the handler came to line 113: the arguments were copied and the log
\* line was written
ReachedIssuance(r) == func_args[r] # Unbound /\ ~LogLineRaises

\* C8: with the signing secret unset (absent or empty), a request that
\* reaches credential issuance fails with the configuration error as a 500,
\* and the tool service is never called.
C8_SecretUnsetNoToolCall ==
    ~Truthy(JWT_SECRET) =>
        \A r \in Reqs :
            /\ ToolCalls(r) = <<>>
            /\ jwt_token[r] = Unbound
            /\ Done(r) /\ ReachedIssuance(r) =>
                   /\ response[r].status_code = 500
                   /\ Contains(response[r].body.detail,
                               "JWT_SECRET is not configured.")

C8_Witness ==
    \E r \in Reqs :
        /\ JWT_SECRET = ""
        /\ Done(r)
        /\ ReachedIssuance(r)
        /\ response[r].status_code = 500

(* ------------------------------- C9 ------------------------------------- *)

\* C9 as stated: a process whose signing secret is unset never serves: it
\* handles no request and makes no model call.
C9_Original ==
    ~Truthy(env.JWT_SECRET) =>
        /\ proc # "serving"
        /\ \A r \in Reqs : pc[r] = "waiting" /\ calls[r] = <<>>

(* ------------------------------- C10 ------------------------------------ *)

\* C10: with the tool-service base URL unset (absent or empty), every
\* request is answered 500 and makes no model call, mints no credential and
\* calls no tool.
C10_BaseUrlUnset ==
    proc = "serving" /\ ~Truthy(env.S2_BASE_URL) =>
        \A r \in Reqs :
            /\ calls[r] = <<>>
            /\ jwt_token[r] = Unbound
            /\ pc[r] \in {"waiting", "done", "closed"}
            /\ Done(r) =>
                   /\ response[r].status_code = 500
                   /\ DOMAIN response[r].body = {"detail"}

C10_Witness ==
    \E r \in Reqs :
        /\ env.S2_BASE_URL = ""
        /\ Done(r)
        /\ user_prompt[r] = "What is 2+2?"
        /\ response[r].status_code = 500

(* ------------------------------- C11 ------------------------------------ *)

\* the request has been given its session id (line 92)
HasSession(r) == session_id[r] # <<>>

\* C11: any two distinct requests the process handles are given different
\* session ids, also when both are handled within the same clock second.
C11_Original ==
    \A r1, r2 \in Reqs :
        r1 # r2 /\ HasSession(r1) /\ HasSession(r2) =>
            session_id[r1] # session_id[r2]

(* ------------------------------- C12 ------------------------------------ *)

\* C12: a credential issued for a request carries exactly the claims
\* session_id, iat and exp; session_id is the request's session id, iat is
\* the clock's whole second at the moment of issue and exp = iat + 60.
C12_CredentialClaims ==
    /\ [](\A r \in Reqs :
            jwt_token[r] # Unbound =>
                /\ DOMAIN jwt_token[r].payload = {"session_id", "iat", "exp"}
                /\ jwt_token[r].payload.session_id = session_id[r]
                /\ jwt_token[r].payload.exp = jwt_token[r].payload.iat + 60)
    /\ [][\A r \in Reqs :
            jwt_token[r] = Unbound /\ jwt_token'[r] # Unbound =>
                jwt_token'[r].payload.iat = now]_vars

\* a credential issued a second after the session id was made
C12_Witness ==
    \E r \in Reqs :
        /\ jwt_token[r] # Unbound
        /\ session_id[r] = <<"session-", 0>>
        /\ jwt_token[r].payload.iat = 1
        /\ jwt_token[r].payload.exp = 61

(* ------------------------------- C13 ------------------------------------ *)

\* C13: every accepted request eventually reaches a terminal state and
\* returns a response, whatever the external parties do.
C13_Original ==
    \A r \in Reqs : (pc[r] = "first_turn") ~> Done(r)

(* ------------------------------- C14 ------------------------------------ *)

\* the name is one of the declared tools
Declared(name) ==
    \E i \in DOMAIN FUNCTION_DECLARATIONS : FUNCTION_DECLARATIONS[i] = name

\* C14: when the model proposes a tool name that is not in the declared
\* catalog, the tool service is not called and the request fails with 500.
C14_Original ==
    \A r \in Reqs :
        Proposed(r) /\ ~Declared(resp[r].function_calls[1].name) =>
            /\ ToolCalls(r) = <<>>
            /\ Done(r) => response[r].status_code = 500

(* ------------------------------- C15 ------------------------------------ *)

\* C15: when the first model call fails the caller gets 500 and nothing
\* else is done; when the follow-up model call fails the caller gets 500
\* without a tool_result, although the tool was executed once.
C15_ModelFailureIs500 ==
    \A r \in Reqs :
        /\ Done(r) /\ FirstTurnFailed(r) =>
               /\ response[r].status_code = 500
               /\ Contains(response[r].body.detail, "model call failed")
               /\ Len(calls[r]) = 1
               /\ jwt_token[r] = Unbound
        /\ Done(r) /\ FollowUpFailed(r) =>
               /\ response[r].status_code = 500
               /\ Contains(response[r].body.detail, "model call failed")
               /\ "tool_result" \notin DOMAIN response[r].body
               /\ Len(ToolCalls(r)) = 1
               /\ tool_result[r] # UnboundStr

C15_Witness ==
    \E r \in Reqs :
        /\ Done(r) /\ FollowUpFailed(r)
        /\ tool_result[r] = "events"
        /\ response[r].status_code = 500

(* ------------------------------- C16 ------------------------------------ *)

\* the first model turn proposes more than one tool call
ProposedSeveral(r) == Proposed(r) /\ Len(resp[r].function_calls) > 1

\* no tool call of the request carries a proposed call other than the first
OnlyFirstSent(r) ==
    \A i \in DOMAIN calls[r] :
        IsToolCall(calls[r][i]) =>
            /\ calls[r][i].json.tool_name = resp[r].function_calls[1].name
            /\ calls[r][i].json.arguments = resp[r].function_calls[1].args
            /\ \A k \in 2..Len(resp[r].function_calls) :
                   calls[r][i].json.tool_name # resp[r].function_calls[k].name

\* C16: when the first model turn proposes more than one tool
\* call, exactly one tool call is made, with the first proposed call's name
\* and arguments, and the other proposed calls are never sent.
C16_Original ==
    \A r \in Reqs :
        Done(r) /\ ProposedSeveral(r) =>
            CalledOnceAsProposed(r) /\ OnlyFirstSent(r)

(* ------------------------------- C17 ------------------------------------ *)

\* the handler has read an answer of the tool service with a success status
ReadSuccess(r) ==
    /\ Answered(r)
    /\ s2_response[r].status_code \in 200..299
    /\ pc[r] # "status"

\* the body is a JSON object
IsObject(s) == s.body.json = "object"

\* the body has no result field: it is an object without one, or no object
NoResultField(s) == ~IsObject(s) \/ "result" \notin DOMAIN s.body.fields

\* the request went on with a null tool result: the follow-up model call
\* was made with it and a 200 response carries tool_result = null
ContinuedWithNull(r) ==
    /\ tool_result[r] = NoneStr
    /\ Done(r) =>
           /\ Len(ModelCalls(r)) = 2
           /\ ModelCalls(r)[2].contents[3].parts[1]
                  .function_response.response.result = NoneStr
           /\ resp2[r] # Unbound =>
                  /\ response[r].status_code = 200
                  /\ response[r].body.tool_result = NoneStr
                  /\ response[r].body.llm_result = resp2[r].text

\* C17 as stated: a success answer of the tool service whose body has no
\* result field does not fail the request: the tool result is null, the
\* follow-up model call is made with it, and the 200 response carries
\* tool_result = null.
C17_Original ==
    \A r \in Reqs :
        ReadSuccess(r) /\ NoResultField(s2_response[r]) => ContinuedWithNull(r)

\* C17 (amended): a success answer of the tool service whose body is a JSON
\* object without a result field does not fail the request: the tool result
\* is null, the follow-up model call is made with it, and the 200 response
\* carries tool_result = null; a success answer whose body is no JSON object
\* (another JSON value, no JSON, or an empty body) fails the request
\* with 500 and no follow-up model call.
C17_MissingResultIsNull ==
    \A r \in Reqs :
        /\ ReadSuccess(r) /\ IsObject(s2_response[r])
               /\ NoResultField(s2_response[r]) => ContinuedWithNull(r)
        /\ ReadSuccess(r) /\ ~IsObject(s2_response[r]) =>
               /\ Done(r)
               /\ response[r].status_code = 500
               /\ tool_result[r] = UnboundStr
               /\ Len(ModelCalls(r)) = 1

C17_Witness ==
    \E r \in Reqs :
        /\ Done(r) /\ ReadSuccess(r)
        /\ s2_response[r].status_code = 204
        /\ s2_response[r].body.text = "{}"
        /\ response[r].status_code = 200
        /\ response[r].body.tool_result = NoneStr

(* ------------------------------- C18 ------------------------------------ *)

\* the detail the claim describes: the body's detail field when the body is
\* a JSON object that has one, the raw body text otherwise
ClaimedDetail(s) ==
    IF s.body.json = "object" /\ "detail" \in DOMAIN s.body.fields
    THEN s.body.fields["detail"]
    ELSE s.body.text

DetailPropagated(r) ==
    /\ response[r].status_code = s2_response[r].status_code
    /\ response[r].body.detail =
           <<"Error communicating with MCP server (S2): ",
             ClaimedDetail(s2_response[r])>>

\* C18 as stated: on any non-success status of the tool service (any status
\* outside 2xx) the caller gets that status with the detail taken from the
\* body's detail field, or from the raw body text when there is none.
C18_Original ==
    \A r \in Reqs :
        Done(r) /\ Answered(r) /\ s2_response[r].status_code \notin 200..299 =>
            DetailPropagated(r)

\* C18 (amended): on an error status of the tool service (4xx or 5xx) the
\* caller gets that status with the detail taken from the body's detail
\* field when the body is a JSON object that has one, and from the raw body
\* text otherwise.
C18_DetailFromBody ==
    \A r \in Reqs :
        Done(r) /\ Answered(r) /\ s2_response[r].status_code \in 400..599 =>
            DetailPropagated(r)

\* a structured error body without a detail field: the raw text is used
C18_Witness ==
    \E r \in Reqs :
        /\ Done(r) /\ Answered(r)
        /\ s2_response[r].status_code = 404
        /\ s2_response[r].body.text = "{'result': 'events'}"
        /\ response[r].status_code = 404
        /\ Contains(response[r].body.detail, "{'result': 'events'}")

(* ------------------------------- C19 ------------------------------------ *)

\* the handler of r is at one of its external calls
AtExternalCall(r) == pc[r] \in {"first_turn", "post", "followup", "blocked"}

\* C19: requests run their pipelines in parallel: while one request is at
\* an external call, another request that has arrived at the same process
\* can start its own pipeline.
C19_Original ==
    \A r1, r2 \in Reqs :
        r1 # r2 /\ AtExternalCall(r1) /\ pc[r2] = "waiting" =>
            ENABLED Enter(r2)

(* ------------------------------- C20 ------------------------------------ *)

\* C20: a credential is minted and the tool service is called only in a
\* request whose first model turn proposed a tool call; not when the model
\* answers directly and not when the first model call fails.
C20_ToolPathOnly ==
    \A r \in Reqs :
        /\ jwt_token[r] # Unbound \/ ToolCalls(r) # <<>> => Proposed(r)
        /\ AnsweredDirectly(r) \/ FirstTurnFailed(r) =>
               /\ jwt_token[r] = Unbound
               /\ ToolCalls(r) = <<>>
               /\ Len(calls[r]) = 1

C20_Witness ==
    \E r \in Reqs :
        /\ Done(r) /\ AnsweredDirectly(r)
        /\ Truthy(JWT_SECRET)
        /\ jwt_token[r] = Unbound
        /\ response[r].status_code = 200

====
